---- MODULE Spec2Model ----
(***************************************************************************)
(* Drowsiness detection: the per-frame decision core of DrowsinessDetector *)
(* (src/drowsiness_detector.py), its session log store, a detection run    *)
(* (src/realtime_detector.py) and the live session coordinator of the      *)
(* dashboard (src/streamlit_app.py).                                       *)
(*                                                                         *)
(* EAR values and the threshold are integers in hundredths (0.25 is 25).   *)
(* Instants are ticks of a logical clock that advances once per processed  *)
(* frame and once per reset.                                               *)
(***************************************************************************)
EXTENDS Integers, Sequences, FiniteSets, TLC

VARIABLES
    thresh,          \* self.thresh
    frame_check,     \* self.frame_check
    flag,            \* self.flag, the consecutive-low counter
    session_start,   \* self.session_start
    drowsy_events,   \* self.drowsy_events
    total_frames,    \* self.total_frames
    drowsy_frames,   \* self.drowsy_frames
    ear_history,     \* self.ear_history
    results,         \* the results dict returned by the last process_frame
    frame_results,   \* process_video_file_path: one entry per processed frame
    clock,           \* datetime.datetime.now()
    log_file,        \* the file drowsiness_log.json
    found,           \* what the last save or load found at log_file
    save_outcome,    \* how the last save_session_log ended
    loaded,          \* what the last load_historical_logs returned
    appended,        \* history: the summaries handed to save_session_log
    last_op,         \* history: the operation that ran last
    status_file,     \* the file live_session_status.json
    wall,            \* time.time() and datetime.now(), in seconds
    cpc,             \* per controller: what its page shows or which handler runs
    cstatus,         \* per controller: status of its script run in progress
    polled,          \* history: what the last check_live_session_status returned
    tpc,             \* per background thread: position in run_live_detection
    tstatus,         \* per background thread: its local status dict
    proc,            \* per background thread: its realtime_detector.py process
    writes,          \* history, per background thread: the records it has written
    wpc,             \* per writer process: position in save_session_log
    wlogs,           \* per writer process: its local list logs as loaded
    wout,            \* per writer process: how its save_session_log ended
    stats,           \* the dict returned by the last get_session_stats
    mpc,             \* realtime_detector.main: its position
    frame_count,     \* realtime_detector.main: frame_count
    auto_stop,       \* realtime_detector.main: args.auto_stop, 0 when not given
    auto_stop_time,  \* realtime_detector.main: auto_stop_time
    mend             \* history: what ended the loop of realtime_detector.main

detVars == <<thresh, frame_check, flag, session_start, drowsy_events,
             total_frames, drowsy_frames, ear_history, results,
             frame_results, clock>>
logVars == <<log_file, found, save_outcome, loaded, appended>>
liveVars == <<status_file, wall, cpc, cstatus, polled, tpc, tstatus, proc, writes>>
raceVars == <<wpc, wlogs, wout>>
otherVars == <<raceVars, stats>>
mainVars == <<mpc, frame_count, auto_stop, auto_stop_time, mend>>
vars == <<detVars, logVars, last_op, liveVars, otherVars, mainVars>>

----------------------------------------------------------------------------
(* Bounds *)

MaxClock == 4         \* frames and resets per behaviour
MaxFaces == 2         \* faces detected in one frame
MaxReadings == 4      \* readings recorded in one session
MaxFrameCheck == 3    \* largest configured frame_check
MaxSaves == 2         \* summaries appended to the log store
MaxExample == 5       \* frames of a behaviour of the worked example
MaxControllers == 2   \* dashboard sessions
MaxRuns == 2          \* background threads started
MaxWall == 2          \* seconds that pass while a detection run lasts
MaxAutoStop == 1      \* largest --auto_stop limit, in seconds
MaxWriters == 3       \* detector processes that save to one log file

(* Program constants *)

DefaultThresh == 25   \* thresh=0.25

EarValues == {20, 25, 30}             \* below, at and above the threshold
ExampleEars == {18, 19, 20, 25, 30}   \* the readings of the worked example
LogEars == {20, 30}                   \* one low and one high reading

----------------------------------------------------------------------------
(* Helpers *)

RECURSIVE SeqSum(_)
SeqSum(s) == IF s = <<>> THEN 0 ELSE Head(s) + SeqSum(Tail(s))

RECURSIVE SeqMin(_)
SeqMin(s) == IF Len(s) = 1 THEN s[1]
             ELSE LET m == SeqMin(Tail(s)) IN IF s[1] < m THEN s[1] ELSE m

RECURSIVE SeqMax(_)
SeqMax(s) == IF Len(s) = 1 THEN s[1]
             ELSE LET m == SeqMax(Tail(s)) IN IF s[1] > m THEN s[1] ELSE m

MaxMutFirst(a, b) == a
Max(a, b) == IF a > b THEN a ELSE b

\* sequences over S of length lo..hi
SeqsOf(S, lo, hi) == UNION {[1..n -> S] : n \in lo..hi}

----------------------------------------------------------------------------
(* DrowsinessDetector.process_frame *)

\* results = {"drowsy": False, "ear": 0.0, "faces_detected": 0, "alert_triggered": False}
InitialResultsMutAlert ==
    [drowsy |-> FALSE, ear |-> 0, faces_detected |-> 0, alert_triggered |-> TRUE]
InitialResults ==
    [drowsy |-> FALSE, ear |-> 0, faces_detected |-> 0, alert_triggered |-> FALSE]

\* if ear < self.thresh
IsLowMutLe(ear, th) == ear <= th
IsLow(ear, th) == ear < th

\* if self.flag >= self.frame_check
AlertDueMutGt(f, fc) == f > fc
AlertDue(f, fc) == f >= fc

\* if self.flag == self.frame_check
EventDueMutGe(f, fc) == f >= fc
EventDue(f, fc) == f = fc

\* log_drowsy_event: the event appended at instant now
DrowsyEvent(ear, now, start) ==
    [timestamp |-> now, ear_value |-> ear, session_duration |-> now - start]

\* the flag after a reading that is not low
FlagAfterHighMutKeep(f) == f
FlagAfterHigh(f) == 0

\* One iteration of "for subject in subjects" on the detector state d
\* (flag, drowsy_frames, drowsy_events, ear_history, results).
ObserveFace(d, ear, th, fc, now, start) ==
    LET r1 == [d.results EXCEPT !.ear = ear]
        h1 == Append(d.ear_history, ear)
    IN  IF IsLow(ear, th)
        THEN LET f1 == d.flag + 1
                 r2 == [r1 EXCEPT !.drowsy = TRUE]
             IN  IF AlertDue(f1, fc)
                 THEN [flag |-> f1,
                       drowsy_frames |-> d.drowsy_frames + 1,
                       drowsy_events |->
                           IF EventDue(f1, fc)
                           THEN Append(d.drowsy_events, DrowsyEvent(ear, now, start))
                           ELSE d.drowsy_events,
                       ear_history |-> h1,
                       results |-> [r2 EXCEPT !.alert_triggered = TRUE]]
                 ELSE [flag |-> f1,
                       drowsy_frames |-> d.drowsy_frames + 1,
                       drowsy_events |-> d.drowsy_events,
                       ear_history |-> h1,
                       results |-> r2]
        ELSE [flag |-> FlagAfterHigh(d.flag),
              drowsy_frames |-> d.drowsy_frames,
              drowsy_events |-> d.drowsy_events,
              ear_history |-> h1,
              results |-> r1]

\* the whole loop over the faces of one frame, in detection order
RECURSIVE ObserveFacesMutReset(_, _, _, _, _, _)
ObserveFacesMutReset(d, ears, th, fc, now, start) ==
    IF ears = <<>> THEN [d EXCEPT !.flag = 0]
    ELSE IF Len(ears) = 1 THEN ObserveFace(d, Head(ears), th, fc, now, start)
    ELSE ObserveFacesMutReset(ObserveFace(d, Head(ears), th, fc, now, start),
                              Tail(ears), th, fc, now, start)
RECURSIVE ObserveFaces(_, _, _, _, _, _)
ObserveFaces(d, ears, th, fc, now, start) ==
    IF ears = <<>> THEN d
    ELSE ObserveFaces(ObserveFace(d, Head(ears), th, fc, now, start),
                      Tail(ears), th, fc, now, start)

\* process_video_file_path: the entry appended to frame_results
FrameResult(n, r) ==
    [frame |-> n, ear |-> r.ear, drowsy |-> r.drowsy,
     alert |-> r.alert_triggered, faces |-> r.faces_detected]

\* process_frame on a frame whose faces have the EAR readings ears
ProcessFrame(ears) ==
    /\ LET now == clock + 1
           d0  == [flag |-> flag, drowsy_frames |-> drowsy_frames,
                   drowsy_events |-> drowsy_events, ear_history |-> ear_history,
                   results |-> [InitialResults EXCEPT !.faces_detected = Len(ears)]]
           d1  == ObserveFaces(d0, ears, thresh, frame_check, now, session_start)
       IN  /\ clock' = now
           /\ total_frames' = total_frames + 1
           /\ flag' = d1.flag
           /\ drowsy_frames' = d1.drowsy_frames
           /\ drowsy_events' = d1.drowsy_events
           /\ ear_history' = d1.ear_history
           /\ results' = d1.results
           /\ frame_results' = Append(frame_results,
                                      FrameResult(Len(frame_results), d1.results))
    /\ last_op' = "frame"
    /\ UNCHANGED <<thresh, frame_check, session_start, logVars, liveVars, otherVars>>

\* reset_session; process_video_file_path starts its frame_results afresh
\* with it, and the results of the last frame stay with the caller
ResetSessionMutKeepCounts ==
    /\ clock < MaxClock
    /\ clock' = clock + 1
    /\ flag' = 0
    /\ session_start' = clock + 1
    /\ drowsy_events' = <<>>
    /\ ear_history' = <<>>
    /\ frame_results' = <<>>
    /\ last_op' = "reset"
    /\ UNCHANGED <<thresh, frame_check, total_frames, drowsy_frames, results,
                   logVars, liveVars, otherVars>>
ResetSession ==
    /\ clock < MaxClock
    /\ clock' = clock + 1
    /\ flag' = 0
    /\ session_start' = clock + 1
    /\ drowsy_events' = <<>>
    /\ total_frames' = 0
    /\ drowsy_frames' = 0
    /\ ear_history' = <<>>
    /\ frame_results' = <<>>
    /\ last_op' = "reset"
    /\ UNCHANGED <<thresh, frame_check, results, logVars, liveVars, otherVars>>

\* a float kept exact, as numerator and denominator
Ratio(n, d) == [num |-> n, den |-> d]

\* no get_session_stats has returned yet
NoStats == <<>>

\* the dict get_session_stats returns
SessionStats ==
    [session_duration |-> clock - session_start,
     total_frames |-> total_frames,
     drowsy_frames |-> drowsy_frames,
     drowsy_events |-> Len(drowsy_events),
     drowsiness_percentage |-> Ratio(drowsy_frames * 100, Max(total_frames, 1)),
     current_ear |-> IF ear_history # <<>> THEN ear_history[Len(ear_history)] ELSE 0,
     avg_ear |-> IF ear_history # <<>>
                 THEN Ratio(SeqSum(ear_history), Len(ear_history)) ELSE Ratio(0, 1)]

\* get_session_stats
GetSessionStats ==
    /\ stats' = SessionStats
    /\ last_op' = "stats"
    /\ UNCHANGED <<detVars, logVars, liveVars, raceVars>>

----------------------------------------------------------------------------
(* The session log store: save_session_log and load_historical_logs *)

\* session_data
SessionData ==
    [session_id |-> session_start,
     duration_seconds |-> clock - session_start,
     total_frames |-> total_frames,
     drowsy_frames |-> drowsy_frames,
     drowsy_events |-> Len(drowsy_events),
     drowsiness_percentage |-> Ratio(drowsy_frames * 100, Max(total_frames, 1)),
     events |-> drowsy_events,
     ear_stats |->
        [mean |-> IF ear_history # <<>>
                  THEN Ratio(SeqSum(ear_history), Len(ear_history)) ELSE Ratio(0, 1),
         min |-> IF ear_history # <<>> THEN SeqMin(ear_history) ELSE 0,
         max |-> IF ear_history # <<>> THEN SeqMax(ear_history) ELSE 0]]

\* no file at the path
Missing == [exists |-> FALSE, parses |-> FALSE, value |-> <<>>]

\* a file whose text json.load rejects, such as one cut short while written
Garbage == [exists |-> TRUE, parses |-> FALSE, value |-> <<>>]

\* open(self.log_file, 'w') and json.dump(logs, f, indent=2)
JsonDump(logs) == [exists |-> TRUE, parses |-> TRUE, value |-> logs]

\* which branch reading the file takes
FoundAt(file) ==
    IF ~file.exists THEN "missing" ELSE IF file.parses THEN "parsed" ELSE "unparseable"

\* save_session_log, "Load existing logs": a missing file and a file that
\* json.load rejects both give logs = []
ExistingLogsMutRaise(file) ==
    IF ~file.exists THEN [raised |-> FALSE, logs |-> <<>>]
    ELSE IF file.parses THEN [raised |-> FALSE, logs |-> file.value]
    ELSE [raised |-> TRUE, logs |-> <<>>]
ExistingLogs(file) ==
    IF ~file.exists THEN [raised |-> FALSE, logs |-> <<>>]
    ELSE IF file.parses THEN [raised |-> FALSE, logs |-> file.value]
    ELSE [raised |-> FALSE, logs |-> <<>>]

\* logs.append(session_data)
AppendLogMutOnly(logs, data) == <<data>>
AppendLog(logs, data) == Append(logs, data)

\* load_historical_logs: the value returned
HistoricalLogs(file) ==
    IF file.exists
    THEN IF file.parses THEN file.value ELSE <<>>
    ELSE <<>>

\* save_session_log
SaveSessionLogMutClear ==
    /\ Len(appended) < MaxSaves
    /\ LET old == ExistingLogs(log_file)
       IN  IF old.raised
           THEN /\ save_outcome' = "raised"
                /\ log_file' = log_file
           ELSE /\ save_outcome' = "ok"
                /\ log_file' = JsonDump(AppendLog(old.logs, SessionData))
    /\ found' = FoundAt(log_file)
    /\ appended' = Append(appended, SessionData)
    /\ last_op' = "save"
    /\ flag' = 0
    /\ session_start' = clock
    /\ drowsy_events' = <<>>
    /\ total_frames' = 0
    /\ drowsy_frames' = 0
    /\ ear_history' = <<>>
    /\ UNCHANGED <<thresh, frame_check, results, frame_results, clock,
                   loaded, liveVars, otherVars>>
SaveSessionLog ==
    /\ Len(appended) < MaxSaves
    /\ LET old == ExistingLogs(log_file)
       IN  IF old.raised
           THEN /\ save_outcome' = "raised"
                /\ log_file' = log_file
           ELSE /\ save_outcome' = "ok"
                /\ log_file' = JsonDump(AppendLog(old.logs, SessionData))
    /\ found' = FoundAt(log_file)
    /\ appended' = Append(appended, SessionData)
    /\ last_op' = "save"
    /\ UNCHANGED <<detVars, loaded, liveVars, otherVars>>

\* load_historical_logs
LoadHistoricalLogs ==
    /\ loaded' = HistoricalLogs(log_file)
    /\ found' = FoundAt(log_file)
    /\ last_op' = "load"
    /\ UNCHANGED <<detVars, log_file, save_outcome, appended, liveVars, otherVars>>


----------------------------------------------------------------------------
(* save_session_log run by several detector processes on one log file:     *)
(* each process loads the file, appends to its own list and writes the     *)
(* list back, in two steps with nothing held in between.                   *)

Writers == 1..MaxWriters

\* session_data of the session of writer p: the sessions of the processes
\* differ in the instant they started, which is their session_id
WriterData(p) == [SessionData EXCEPT !.session_id = session_start + p]

\* save_session_log up to logs.append: the file is read
WriterLoads(p) ==
    /\ wpc[p] = "idle"
    /\ LET old == ExistingLogs(log_file)
       IN  IF old.raised
           THEN /\ wout' = [wout EXCEPT ![p] = "raised"]
                /\ wpc' = [wpc EXCEPT ![p] = "done"]
                /\ wlogs' = wlogs
           ELSE /\ wlogs' = [wlogs EXCEPT ![p] = old.logs]
                /\ wpc' = [wpc EXCEPT ![p] = "loaded"]
                /\ wout' = wout
    /\ UNCHANGED <<detVars, logVars, last_op, liveVars, stats, mainVars>>

\* save_session_log from logs.append on: the whole list is written back
WriterWritesMutMerge(p) ==
    /\ wpc[p] = "loaded"
    /\ log_file' = JsonDump(AppendLog(ExistingLogs(log_file).logs, WriterData(p)))
    /\ appended' = Append(appended, WriterData(p))
    /\ wout' = [wout EXCEPT ![p] = "ok"]
    /\ wpc' = [wpc EXCEPT ![p] = "done"]
    /\ UNCHANGED <<detVars, found, save_outcome, loaded, last_op, liveVars, wlogs, stats, mainVars>>
WriterWrites(p) ==
    /\ wpc[p] = "loaded"
    /\ log_file' = JsonDump(AppendLog(wlogs[p], WriterData(p)))
    /\ appended' = Append(appended, WriterData(p))
    /\ wout' = [wout EXCEPT ![p] = "ok"]
    /\ wpc' = [wpc EXCEPT ![p] = "done"]
    /\ UNCHANGED <<detVars, found, save_outcome, loaded, last_op, liveVars, wlogs, stats, mainVars>>

----------------------------------------------------------------------------
(* The live session coordinator: live_detection_tab, start_live_detection  *)
(* and check_live_session_status of src/streamlit_app.py.  A status dict   *)
(* is a function from its keys to their values.                            *)

Controllers == 1..MaxControllers
Runs == 1..MaxRuns

\* no file at live_session_status.json
NoStatusFile == [exists |-> FALSE, parses |-> FALSE, value |-> <<>>]

\* open("live_session_status.json", "w") and json.dump(status, f)
StatusDump(status) == [exists |-> TRUE, parses |-> TRUE, value |-> status]

\* d[k] = v on a dict
DictSet(d, k, v) == [x \in DOMAIN d \cup {k} |-> IF x = k THEN v ELSE d[x]]

\* run_live_detection: the status written by the except branch
ErrorStatus == [active |-> FALSE, error |-> "error"]

\* a status file whose text json.load rejects
GarbageStatus == [exists |-> TRUE, parses |-> FALSE, value |-> <<>>]

\* check_live_session_status
CheckLiveSessionStatusMutError(file) ==
    IF file.exists /\ file.parses THEN file.value ELSE ErrorStatus
CheckLiveSessionStatus(file) ==
    IF file.exists
    THEN IF file.parses THEN file.value ELSE [active |-> FALSE]
    ELSE [active |-> FALSE]

\* a controller that is not in a script run has no local status
NoStatus == [active |-> FALSE]

\* no observer has called check_live_session_status yet
NotPolled == <<>>

\* status.get("active", False)
GetActive(status) == IF "active" \in DOMAIN status THEN status.active ELSE FALSE

\* run_live_detection: the status written before the process is launched;
\* session_id is the instant formatted to the second, output_file is named by it
StartingStatusMutIdle(now) ==
    [active |-> FALSE, start_time |-> now, output_file |-> now, session_id |-> now]
StartingStatus(now) ==
    [active |-> TRUE, start_time |-> now, output_file |-> now, session_id |-> now]

\* run_live_detection: the status written when process.wait() has returned
CompletedStatusMutActive(status, now) ==
    DictSet(DictSet(status, "end_time", now), "completed", TRUE)
CompletedStatusMutFresh(status, now) ==
    [active |-> FALSE, end_time |-> now, completed |-> TRUE]
CompletedStatus(status, now) ==
    DictSet(DictSet(DictSet(status, "active", FALSE), "end_time", now), "completed", TRUE)

\* the history once the thread of run t has written status
Written(t, status) == [writes EXCEPT ![t] = Append(writes[t], status)]

\* Python's None
None == <<>>

\* the seconds pass: as many as the bound allows, and in any case until an
\* auto-stop limit that is set has been passed
Tick ==
    /\ wall < MaxWall \/ (auto_stop_time # None /\ wall <= auto_stop_time[1])
    /\ wall' = wall + 1
    /\ UNCHANGED <<mainVars, otherVars, detVars, logVars, last_op, status_file, cpc, cstatus, polled, tpc, tstatus, proc, writes>>

\* an observer calls check_live_session_status
PollStatus ==
    /\ polled' = CheckLiveSessionStatus(status_file)
    /\ UNCHANGED <<mainVars, otherVars, detVars, logVars, last_op, status_file, wall, cpc, cstatus, tpc, tstatus, proc, writes>>

\* a script run of live_detection_tab without a click: the page shows the
\* Stop button if the status read is active and the Start button otherwise
ScriptRun(c) ==
    /\ cpc[c] \in {"idle", "start_shown", "stop_shown"}
    /\ LET status == CheckLiveSessionStatus(status_file)
       IN  /\ cpc' = [cpc EXCEPT ![c] = IF GetActive(status) THEN "stop_shown"
                                        ELSE "start_shown"]
    /\ UNCHANGED <<mainVars, otherVars, detVars, logVars, last_op, status_file, wall, polled, cstatus, tpc, tstatus, proc, writes>>

\* the script run that a click on Start triggers, up to st.button: the
\* button is rendered, and returns True, only if the status read is not active
ClickStart(c) ==
    /\ cpc[c] = "start_shown"
    /\ LET status == CheckLiveSessionStatus(status_file)
       IN  /\ cstatus' = [cstatus EXCEPT ![c] = IF GetActive(status) THEN NoStatus
                                                ELSE status]
           /\ cpc' = [cpc EXCEPT ![c] = IF GetActive(status) THEN "stop_shown"
                                        ELSE "in_start"]
    /\ UNCHANGED <<mainVars, otherVars, detVars, logVars, last_op, status_file, wall, polled, tpc, tstatus, proc, writes>>

\* start_live_detection: the thread is created and started; the page is
\* rerun after the sleep
StartLiveDetection(c) ==
    /\ cpc[c] = "in_start"
    /\ \E t \in Runs :
          /\ tpc[t] = "unused"
          /\ \A u \in Runs : u < t => tpc[u] # "unused"
          /\ tpc' = [tpc EXCEPT ![t] = "begin"]
    /\ cpc' = [cpc EXCEPT ![c] = "idle"]
    /\ cstatus' = [cstatus EXCEPT ![c] = NoStatus]
    /\ UNCHANGED <<mainVars, otherVars, detVars, logVars, last_op, status_file, wall, polled, tstatus, proc, writes>>

\* the script run that a click on Stop triggers, up to st.button
ClickStop(c) ==
    /\ cpc[c] = "stop_shown"
    /\ LET status == CheckLiveSessionStatus(status_file)
       IN  /\ cstatus' = [cstatus EXCEPT ![c] = IF GetActive(status) THEN status
                                                ELSE NoStatus]
           /\ cpc' = [cpc EXCEPT ![c] = IF GetActive(status) THEN "in_stop"
                                        ELSE "start_shown"]
    /\ UNCHANGED <<mainVars, otherVars, detVars, logVars, last_op, status_file, wall, polled, tpc, tstatus, proc, writes>>

\* the Stop handler: pkill signals every realtime_detector.py process, the
\* status read by this script run is written back with active = False
StopLiveDetectionMutKeep(c) ==
    /\ cpc[c] = "in_stop"
    /\ proc' = [t \in Runs |-> IF proc[t] = "running" THEN "signalled" ELSE proc[t]]
    /\ status_file' = StatusDump(cstatus[c])
    /\ writes' = writes
    /\ cstatus' = [cstatus EXCEPT ![c] = NoStatus]
    /\ cpc' = [cpc EXCEPT ![c] = "idle"]
    /\ UNCHANGED <<mainVars, otherVars, detVars, logVars, last_op, wall, polled, tpc, tstatus>>
StopLiveDetection(c) ==
    /\ cpc[c] = "in_stop"
    /\ proc' = [t \in Runs |-> IF proc[t] = "running" THEN "signalled" ELSE proc[t]]
    /\ status_file' = StatusDump(DictSet(cstatus[c], "active", FALSE))
    /\ writes' = writes
    /\ cstatus' = [cstatus EXCEPT ![c] = NoStatus]
    /\ cpc' = [cpc EXCEPT ![c] = "idle"]
    /\ UNCHANGED <<mainVars, otherVars, detVars, logVars, last_op, wall, polled, tpc, tstatus>>

\* run_live_detection up to the first write: Starting
WriteStarting(t) ==
    /\ tpc[t] = "begin"
    /\ tstatus' = [tstatus EXCEPT ![t] = StartingStatus(wall)]
    /\ status_file' = StatusDump(StartingStatus(wall))
    /\ writes' = Written(t, StartingStatus(wall))
    /\ tpc' = [tpc EXCEPT ![t] = "launch"]
    /\ UNCHANGED <<mainVars, otherVars, detVars, logVars, last_op, wall, cpc, cstatus, polled, proc>>

\* subprocess.Popen(cmd) returns: the detector process runs
Launch(t) ==
    /\ tpc[t] = "launch"
    /\ proc' = [proc EXCEPT ![t] = "running"]
    /\ tpc' = [tpc EXCEPT ![t] = "wait"]
    /\ UNCHANGED <<mainVars, otherVars, detVars, logVars, last_op, status_file, wall, cpc, cstatus, polled, tstatus, writes>>

\* subprocess.Popen(cmd) raises: the except branch writes the error status
LaunchFails(t) ==
    /\ tpc[t] = "launch"
    /\ tstatus' = [tstatus EXCEPT ![t] = ErrorStatus]
    /\ status_file' = StatusDump(ErrorStatus)
    /\ writes' = Written(t, ErrorStatus)
    /\ tpc' = [tpc EXCEPT ![t] = "done"]
    /\ UNCHANGED <<mainVars, otherVars, detVars, logVars, last_op, wall, cpc, cstatus, polled, proc>>

\* the detector process ends: by itself (quit key, auto-stop, end of the
\* video), or killed by the signal of pkill
ProcessExits(t) ==
    /\ proc[t] \in {"running", "signalled"}
    /\ proc' = [proc EXCEPT ![t] = IF proc[t] = "signalled" THEN "killed" ELSE "exited"]
    /\ UNCHANGED <<mainVars, otherVars, detVars, logVars, last_op, status_file, wall, cpc, cstatus, polled, tpc, tstatus, writes>>

\* the detector process fails: main returns early because the detector
\* cannot be initialised or the video source cannot be opened, or it crashes
ProcessFails(t) ==
    /\ proc[t] = "running"
    /\ proc' = [proc EXCEPT ![t] = "failed"]
    /\ UNCHANGED <<mainVars, otherVars, detVars, logVars, last_op, status_file, wall, cpc, cstatus, polled, tpc, tstatus, writes>>

\* the process has ended, whatever its exit status
Ended(p) == p \in {"exited", "failed", "killed"}

\* process.wait() returns and the thread writes Completed
WriteCompleted(t) ==
    /\ tpc[t] = "wait"
    /\ Ended(proc[t])
    /\ tstatus' = [tstatus EXCEPT ![t] = CompletedStatus(tstatus[t], wall)]
    /\ status_file' = StatusDump(CompletedStatus(tstatus[t], wall))
    /\ writes' = Written(t, CompletedStatus(tstatus[t], wall))
    /\ tpc' = [tpc EXCEPT ![t] = "done"]
    /\ UNCHANGED <<mainVars, otherVars, detVars, logVars, last_op, wall, cpc, cstatus, polled, proc>>

\* The writes of run_live_detection as the file system sees them:
\* open(path, "w") empties the file and the text of json.dump reaches it
\* when the with block closes it.  An empty file is one json.load rejects.

\* the Starting write, open(..., "w"): the file is emptied
OpenForStarting(t) ==
    /\ tpc[t] = "begin"
    /\ tstatus' = [tstatus EXCEPT ![t] = StartingStatus(wall)]
    /\ status_file' = GarbageStatus
    /\ tpc' = [tpc EXCEPT ![t] = "dump_starting"]
    /\ UNCHANGED <<mainVars, otherVars, detVars, logVars, last_op, wall, cpc, cstatus, polled, proc, writes>>

\* the Starting write, json.dump and close: the record is in the file
DumpStarting(t) ==
    /\ tpc[t] = "dump_starting"
    /\ status_file' = StatusDump(tstatus[t])
    /\ writes' = Written(t, tstatus[t])
    /\ tpc' = [tpc EXCEPT ![t] = "launch"]
    /\ UNCHANGED <<mainVars, otherVars, detVars, logVars, last_op, wall, cpc, cstatus, polled, tstatus, proc>>

\* the Completed write, open(..., "w"): the file is emptied
OpenForCompleted(t) ==
    /\ tpc[t] = "wait"
    /\ Ended(proc[t])
    /\ tstatus' = [tstatus EXCEPT ![t] = CompletedStatus(tstatus[t], wall)]
    /\ status_file' = GarbageStatus
    /\ tpc' = [tpc EXCEPT ![t] = "dump_completed"]
    /\ UNCHANGED <<mainVars, otherVars, detVars, logVars, last_op, wall, cpc, cstatus, polled, proc, writes>>

\* the Completed write, json.dump and close: the record is in the file
DumpCompleted(t) ==
    /\ tpc[t] = "dump_completed"
    /\ status_file' = StatusDump(tstatus[t])
    /\ writes' = Written(t, tstatus[t])
    /\ tpc' = [tpc EXCEPT ![t] = "done"]
    /\ UNCHANGED <<mainVars, otherVars, detVars, logVars, last_op, wall, cpc, cstatus, polled, tstatus, proc>>

----------------------------------------------------------------------------
(* A detection run: main of src/realtime_detector.py.  time.time() is wall. *)

\* the detector is constructed
MainInit ==
    /\ mpc = "init"
    /\ mpc' = "open"
    /\ UNCHANGED <<detVars, logVars, last_op, liveVars, otherVars,
                   frame_count, auto_stop, auto_stop_time, mend>>

\* the constructor raises: main prints the error and returns
MainInitFails ==
    /\ mpc = "init"
    /\ mpc' = "not_initialised"
    /\ UNCHANGED <<detVars, logVars, last_op, liveVars, otherVars,
                   frame_count, auto_stop, auto_stop_time, mend>>

\* the video source is open: the loop is entered
MainOpen ==
    /\ mpc = "open"
    /\ frame_count' = 0
    /\ auto_stop_time' = IF auto_stop # 0 THEN <<wall + auto_stop>> ELSE None
    /\ mpc' = "read"
    /\ UNCHANGED <<detVars, logVars, last_op, liveVars, otherVars, auto_stop, mend>>

\* cap.isOpened() is false: main prints the error and returns
MainOpenFails ==
    /\ mpc = "open"
    /\ mpc' = "not_opened"
    /\ UNCHANGED <<detVars, logVars, last_op, liveVars, otherVars,
                   frame_count, auto_stop, auto_stop_time, mend>>

\* the auto-stop check of one iteration
AutoStopDueMutNever(limit, now) == FALSE
AutoStopDue(limit, now) == limit # None /\ now > limit[1]

\* the head of one loop iteration: cap.read() and the auto-stop check
MainRead(ret) ==
    /\ mpc = "read"
    /\ IF ~ret
       THEN /\ mpc' = "finally"
            /\ mend' = "no_frame"
            /\ frame_count' = frame_count
       ELSE /\ frame_count' = frame_count + 1
            /\ IF AutoStopDue(auto_stop_time, wall)
               THEN mpc' = "finally" /\ mend' = "auto_stop"
               ELSE mpc' = "process" /\ mend' = mend
    /\ UNCHANGED <<detVars, logVars, last_op, liveVars, otherVars,
                   auto_stop, auto_stop_time>>

\* detector.process_frame(frame) of the iteration
MainProcess(ears) ==
    /\ mpc = "process"
    /\ ProcessFrame(ears)
    /\ mpc' = "key"
    /\ UNCHANGED <<frame_count, auto_stop, auto_stop_time, mend>>

\* cv2.waitKey returns no key of the three
MainKeyNone ==
    /\ mpc = "key"
    /\ mpc' = "read"
    /\ UNCHANGED <<detVars, logVars, last_op, liveVars, otherVars,
                   frame_count, auto_stop, auto_stop_time, mend>>

\* key q: break
MainKeyQuit ==
    /\ mpc = "key"
    /\ mpc' = "finally"
    /\ mend' = "quit"
    /\ UNCHANGED <<detVars, logVars, last_op, liveVars, otherVars,
                   frame_count, auto_stop, auto_stop_time>>

\* key s: the statistics are printed
MainKeyStats ==
    /\ mpc = "key"
    /\ GetSessionStats
    /\ mpc' = "read"
    /\ UNCHANGED <<frame_count, auto_stop, auto_stop_time, mend>>

\* key r: detector.reset_session()
MainKeyReset ==
    /\ mpc = "key"
    /\ ResetSession
    /\ mpc' = "read"
    /\ UNCHANGED <<frame_count, auto_stop, auto_stop_time, mend>>

\* Ctrl-C while the loop runs: except KeyboardInterrupt
KeyboardInterrupt ==
    /\ mpc \in {"read", "process", "key"}
    /\ mpc' = "finally"
    /\ mend' = "interrupt"
    /\ UNCHANGED <<detVars, logVars, last_op, liveVars, otherVars,
                   frame_count, auto_stop, auto_stop_time>>

\* finally: the summary is printed from get_session_stats
MainSummary ==
    /\ mpc = "finally"
    /\ GetSessionStats
    /\ mpc' = "save"
    /\ UNCHANGED <<frame_count, auto_stop, auto_stop_time, mend>>

\* finally: detector.save_session_log() inside try/except, then the cleanup
MainSave ==
    /\ mpc = "save"
    /\ SaveSessionLog
    /\ mpc' = "done"
    /\ UNCHANGED <<frame_count, auto_stop, auto_stop_time, mend>>

\* the positions of main at which the session is open
InSession == {"read", "process", "key", "finally", "save"}

\* pkill -f realtime_detector.py of the Stop handler: SIGTERM has its default
\* action in this process, which ends at once, wherever it is
Terminate ==
    /\ mpc \in {"init", "open"} \cup InSession
    /\ mpc' = IF mpc \in InSession THEN "killed" ELSE "prevented"
    /\ mend' = IF mpc \in InSession THEN "stop_request" ELSE mend
    /\ UNCHANGED <<detVars, logVars, last_op, liveVars, otherVars,
                   frame_count, auto_stop, auto_stop_time>>

----------------------------------------------------------------------------
(* Specifications *)

\* the dashboard is loaded, with the status file one of files
InitCoordinator(files) ==
    /\ status_file \in files
    /\ wall = 0
    /\ cpc = [c \in Controllers |-> "idle"]
    /\ cstatus = [c \in Controllers |-> NoStatus]
    /\ polled = NotPolled
    /\ tpc = [t \in Runs |-> "unused"]
    /\ tstatus = [t \in Runs |-> [active |-> FALSE]]
    /\ proc = [t \in Runs |-> "none"]
    /\ writes = [t \in Runs |-> <<>>]

InitLive == InitCoordinator({NoStatusFile})

\* the state after DrowsinessDetector.__init__, with frame_check one of fcs
\* and the log file one of files
InitDetector(fcs, files) ==
    /\ thresh = DefaultThresh
    /\ frame_check \in fcs
    /\ flag = 0
    /\ session_start = 0
    /\ drowsy_events = <<>>
    /\ total_frames = 0
    /\ drowsy_frames = 0
    /\ ear_history = <<>>
    /\ results = InitialResults
    /\ frame_results = <<>>
    /\ clock = 0
    /\ log_file \in files
    /\ found = "none"
    /\ save_outcome = "none"
    /\ loaded = <<>>
    /\ appended = <<>>
    /\ last_op = "init"
    /\ wpc = [p \in Writers |-> "idle"]
    /\ wlogs = [p \in Writers |-> <<>>]
    /\ wout = [p \in Writers |-> "none"]
    /\ stats = NoStats

\* realtime_detector.main after parse_args, with --auto_stop one of limits
InitMain(limits) ==
    /\ mpc = "init"
    /\ frame_count = 0
    /\ auto_stop \in limits
    /\ auto_stop_time = None
    /\ mend = "none"

Init == InitDetector(1..MaxFrameCheck, {Missing}) /\ InitLive /\ InitMain({0})

\* frames with any number of faces
Frame ==
    /\ clock < MaxClock
    /\ \E ears \in SeqsOf(EarValues, 0, MaxFaces) :
          /\ Len(ear_history) + Len(ears) <= MaxReadings
          /\ ProcessFrame(ears)
    /\ UNCHANGED mainVars

\* the caller resets the session
Reset == ResetSession /\ UNCHANGED mainVars

Next == Frame \/ Reset

Spec == Init /\ [][Next]_vars

\* __init__ stores whatever frame_check it is given: --frame_check of
\* realtime_detector.py is any int, 0 among them
InitConfig ==
    InitDetector(0..MaxFrameCheck, {Missing}) /\ InitLive /\ InitMain({0})

\* a detector constructed with any frame_check
SpecConfig == InitConfig /\ [][Next]_vars

\* frames with exactly one face, over the readings of the worked example
OneFaceFrame ==
    /\ clock < MaxExample
    /\ \E e \in ExampleEars : ProcessFrame(<<e>>)
    /\ UNCHANGED mainVars

NextExample == OneFaceFrame \/ Reset

SpecExample == Init /\ [][NextExample]_vars

\* frames with at most one face, below or above the threshold
LogFrame ==
    /\ clock < MaxClock
    /\ \E ears \in SeqsOf(LogEars, 0, 1) : ProcessFrame(ears)
    /\ UNCHANGED mainVars

\* the caller ends the session
Save == SaveSessionLog /\ UNCHANGED mainVars

\* the dashboard shows the history
Load == LoadHistoricalLogs /\ UNCHANGED mainVars

NextLog == LogFrame \/ Reset \/ Save \/ Load

\* the log store is fresh
SpecLog == Init /\ [][NextLog]_vars

\* the log file may be one left cut short by an interrupted write
InitRecover ==
    InitDetector(1..MaxFrameCheck, {Missing, Garbage}) /\ InitLive /\ InitMain({0})

SpecRecover == InitRecover /\ [][NextLog]_vars

Writer(p) == WriterLoads(p) \/ WriterWrites(p)

NextRace == \E p \in Writers : Writer(p)

\* several detector processes end their sessions at about the same time
SpecRace == InitRecover /\ [][NextRace]_vars

\* cap.read() gives a frame; one that will be processed counts against the
\* bound on the clock of the detector
FrameArrives ==
    /\ clock < MaxClock \/ AutoStopDue(auto_stop_time, wall)
    /\ MainRead(TRUE)

\* cap.read() gives no frame: the video has ended or the camera fails
NoFrame == MainRead(FALSE)

\* the camera or the video gives a frame, or none
ReadFrame == FrameArrives \/ NoFrame

\* the frames and keys of a detection run
MainLoop ==
    \/ ReadFrame
    \/ \E ears \in SeqsOf(LogEars, 0, 1) : MainProcess(ears)
    \/ MainKeyNone
    \/ MainKeyQuit
    \/ MainKeyStats
    \/ MainKeyReset
    \/ KeyboardInterrupt

NextMain ==
    \/ MainInit
    \/ MainInitFails
    \/ MainOpen
    \/ MainOpenFails
    \/ MainLoop
    \/ MainSummary
    \/ MainSave
    \/ Terminate
    \/ Tick

InitRun ==
    InitDetector({MaxFrameCheck - 1}, {Missing}) /\ InitLive /\ InitMain(0..MaxAutoStop)

\* one run of realtime_detector.py
SpecMain == InitRun /\ [][NextMain]_vars

\* cv2.waitKey returns, whatever the key
MainKey == MainKeyNone \/ MainKeyQuit \/ MainKeyStats \/ MainKeyReset

\* the run goes on: time passes, frames keep arriving, and the loop keeps
\* running while its process is there
FairMain ==
    /\ WF_vars(Tick)
    /\ WF_vars(FrameArrives)
    /\ WF_vars(\E ears \in SeqsOf(LogEars, 0, 1) : MainProcess(ears))
    /\ WF_vars(MainKey)

SpecMainFair == SpecMain /\ FairMain

Controller(c) ==
    \/ ScriptRun(c)
    \/ ClickStart(c)
    \/ StartLiveDetection(c)
    \/ ClickStop(c)
    \/ StopLiveDetection(c)

Thread(t) ==
    \/ WriteStarting(t)
    \/ Launch(t)
    \/ LaunchFails(t)
    \/ ProcessExits(t)
    \/ ProcessFails(t)
    \/ WriteCompleted(t)

NextLive ==
    \/ \E c \in Controllers : Controller(c)
    \/ \E t \in Runs : Thread(t)

\* a session of the dashboard in which runs are started and none is stopped
Starter(c) ==
    \/ ScriptRun(c)
    \/ ClickStart(c)
    \/ StartLiveDetection(c)

\* run_live_detection with each write in its two steps
ThreadOnFile(t) ==
    \/ OpenForStarting(t)
    \/ DumpStarting(t)
    \/ Launch(t)
    \/ ProcessExits(t)
    \/ ProcessFails(t)
    \/ OpenForCompleted(t)
    \/ DumpCompleted(t)

NextFile ==
    \/ PollStatus
    \/ \E c \in Controllers : Starter(c)
    \/ \E t \in Runs : ThreadOnFile(t)

\* a session of the dashboard in which no run is started
Viewer(c) ==
    \/ ScriptRun(c)
    \/ ClickStop(c)
    \/ StopLiveDetection(c)

NextStatus ==
    \/ PollStatus
    \/ \E c \in Controllers : Viewer(c)

\* the status files an earlier dashboard can have left behind: none, one cut
\* short while written, and the records of a run that was started, stopped,
\* completed or failed
LeftStatusFiles ==
    {NoStatusFile, GarbageStatus, StatusDump(ErrorStatus)}
       \cup {StatusDump(StartingStatus(b)) : b \in 0..MaxWall}
       \cup {StatusDump(DictSet(StartingStatus(b), "active", FALSE)) : b \in 0..MaxWall}
       \cup {StatusDump(CompletedStatus(StartingStatus(b), e)) :
                b \in 0..MaxWall, e \in 0..MaxWall}

InitStatus ==
    /\ InitDetector({MaxFrameCheck}, {Missing})
    /\ InitCoordinator(LeftStatusFiles)
    /\ InitMain({0})

\* the dashboard finds a status file and is only watched
SpecStatus == InitStatus /\ [][NextStatus]_vars

\* the dashboard, with one configuration of its detector
InitDashboard == InitDetector({MaxFrameCheck}, {Missing}) /\ InitLive /\ InitMain({0})

SpecLive == InitDashboard /\ [][NextLive]_vars

\* the thread of a run keeps running and its process exits eventually;
\* nothing obliges a user to click
FairLive == \A t \in Runs : WF_vars(Thread(t))

\* the dashboard operated from one browser session
NextUser ==
    \/ Controller(1)
    \/ \E t \in Runs : Thread(t)

SpecUser == InitDashboard /\ [][NextUser]_vars

SpecUserFair == SpecUser /\ FairLive

\* the status file read by observers while the threads write it
SpecFile == InitDashboard /\ [][NextFile]_vars

----------------------------------------------------------------------------
(* What the readings of the session say, independently of the counter *)

\* the reading at position i of the session is low
LowAt(i) == ear_history[i] < thresh

\* length of the run of low readings that ends at position k (0 if k is not low)
LowRunEndingAt(k) ==
    IF k = 0 THEN 0
    ELSE LET starts == {j \in 1..k : \A i \in j..k : LowAt(i)}
         IN  Cardinality(starts)

\* positions at which a run of low readings reaches the length frame_check
FirePoints == {k \in 1..Len(ear_history) : LowRunEndingAt(k) = frame_check}

\* the k-th smallest element of a finite set of numbers
RECURSIVE Sorted(_)
Sorted(S) == IF S = {} THEN <<>>
             ELSE LET m == CHOOSE x \in S : \A y \in S : x <= y
                  IN  <<m>> \o Sorted(S \ {m})

\* last positions of the maximal runs of low readings of length >= frame_check
QualifyingRuns ==
    {k \in 1..Len(ear_history) :
        /\ LowRunEndingAt(k) >= frame_check
        /\ (k = Len(ear_history) \/ ~LowAt(k + 1))}

\* number of readings of the frames before frame i (1-based) of frame_results
RECURSIVE ReadingsBefore(_)
ReadingsBefore(i) ==
    IF i <= 1 THEN 0 ELSE ReadingsBefore(i - 1) + frame_results[i - 1].faces

\* the reading of the face detected p-th in frame i
ReadingOf(i, p) == ear_history[ReadingsBefore(i) + p]

\* results is the verdict of the last frame of frame_results
VerdictCurrent == frame_results # <<>>

----------------------------------------------------------------------------
(* C1: one DrowsyEvent is appended per run of consecutive low readings     *)
(* that reaches frame_check, at the reading where the run length first     *)
(* equals frame_check; further low readings of the run append nothing and  *)
(* keep alert_triggered true.                                              *)
C1_OneEventPerRun ==
    /\ Len(drowsy_events) = Cardinality(FirePoints)
    /\ \A n \in 1..Len(drowsy_events) :
          n <= Cardinality(FirePoints) =>
             drowsy_events[n].ear_value = ear_history[Sorted(FirePoints)[n]]
    /\ (VerdictCurrent /\ results.faces_detected >= 1
          /\ LowRunEndingAt(Len(ear_history)) >= frame_check)
       => results.alert_triggered

C1_Witness ==
    /\ VerdictCurrent
    /\ LowRunEndingAt(Len(ear_history)) > frame_check
    /\ Len(drowsy_events) = 1
    /\ results.alert_triggered

(* C2: drowsy_frames never exceeds total_frames, whatever the number of    *)
(* faces in the processed frames.                                          *)
C2_DrowsyAtMostTotal == drowsy_frames <= total_frames

(* C3: a reading that is not low resets the counter to 0, the next run     *)
(* counts from 1 (the counter is the length of the current run of low      *)
(* readings), and two qualifying runs separated by a reading that is not   *)
(* low give exactly two events.                                            *)
C3_ResetAndRefire ==
    /\ flag = LowRunEndingAt(Len(ear_history))
    /\ Len(drowsy_events) = Cardinality(QualifyingRuns)

C3_Witness ==
    /\ Cardinality(QualifyingRuns) = 2
    /\ Len(drowsy_events) = 2
    /\ flag >= frame_check

(* C4: a reading equal to thresh is not drowsy: drowsy_frames counts the   *)
(* readings strictly below thresh, and a one-face frame whose reading      *)
(* equals thresh reports drowsy = false and leaves the counter at 0.       *)
C4_BoundaryNotDrowsy ==
    /\ drowsy_frames = Cardinality({i \in 1..Len(ear_history) : ear_history[i] < thresh})
    /\ (VerdictCurrent /\ results.faces_detected = 1)
          => /\ results.drowsy <=> (results.ear < thresh)
             /\ results.ear = thresh => (~results.drowsy /\ flag = 0)

C4_Witness ==
    /\ Len(frame_results) >= 2
    /\ frame_results[Len(frame_results) - 1].drowsy
    /\ results.faces_detected = 1
    /\ results.ear = thresh
    /\ ~results.drowsy
    /\ flag = 0
    /\ drowsy_frames > 0

(* C5 as claimed: the verdict of every processed frame, also one without   *)
(* a face, has alert_triggered iff the counter after it is >= frame_check. *)
C5_AlertIffCounter ==
    VerdictCurrent => (results.alert_triggered <=> flag >= frame_check)

\* positions in ear_history of the readings of the last processed frame
LastFrameReadings ==
    (Len(ear_history) - results.faces_detected + 1)..Len(ear_history)

(* C5 amended: alert_triggered is true iff some reading of that frame left *)
(* the counter >= frame_check; for a one-face frame that is the counter    *)
(* after the frame, for a frame without a face it is false.                *)
C5_AlertIffSomeReading ==
    VerdictCurrent =>
       /\ results.alert_triggered <=>
             \E k \in LastFrameReadings : LowRunEndingAt(k) >= frame_check
       /\ results.faces_detected = 1 =>
             (results.alert_triggered <=> flag >= frame_check)
       /\ results.faces_detected = 0 => ~results.alert_triggered

C5_Witness ==
    /\ VerdictCurrent
    /\ results.faces_detected = 0
    /\ flag >= frame_check
    /\ ~results.alert_triggered
    /\ Len(drowsy_events) = 1

\* the worked example: readings, and the verdicts of the frames
ExampleReadings == <<30, 20, 18, 19, 30>>
ExampleDrowsy == <<FALSE, TRUE, TRUE, TRUE, FALSE>>

\* the frames processed so far are the first n frames of the example
ExamplePrefix(n) ==
    /\ thresh = 25
    /\ frame_check = 3
    /\ Len(frame_results) = n
    /\ \A i \in 1..n : frame_results[i].faces = 1 /\ frame_results[i].ear = ExampleReadings[i]

\* 0-based indices of the frames with alert_triggered
AlertIndices == {frame_results[i].frame : i \in {j \in 1..Len(frame_results) : frame_results[j].alert}}

\* 0-based indices of the frames at which the events were appended
EventIndices == {drowsy_events[n].session_duration - 1 : n \in 1..Len(drowsy_events)}

(* C6 as claimed: in the example the alert is first true at index 2 and    *)
(* the single event is emitted there.                                      *)
C6_ExampleAlertAtIndex2 ==
    ExamplePrefix(5) =>
       /\ \A i \in 1..5 : frame_results[i].drowsy = ExampleDrowsy[i]
       /\ AlertIndices # {} /\ (\A a \in AlertIndices : a >= 2) /\ 2 \in AlertIndices
       /\ Len(drowsy_events) = 1
       /\ EventIndices = {2}

(* C6 amended: with thresh 0.25 and frame_check 3 the frames               *)
(* [0.30, 0.20, 0.18, 0.19, 0.30] give drowsy = [F,T,T,T,F], the alert is  *)
(* true at index 3 only (the third low frame) and the single event is      *)
(* emitted at index 3.                                                     *)
C6_ExampleAlertAtIndex3 ==
    \A n \in 0..5 : ExamplePrefix(n) =>
       /\ \A i \in 1..n : frame_results[i].drowsy = ExampleDrowsy[i]
       /\ AlertIndices = (IF n >= 4 THEN {3} ELSE {})
       /\ EventIndices = (IF n >= 4 THEN {3} ELSE {})
       /\ Len(drowsy_events) = (IF n >= 4 THEN 1 ELSE 0)
       /\ n >= 4 => drowsy_events[1].ear_value = 19

C6_Witness ==
    /\ ExamplePrefix(5)
    /\ Len(drowsy_events) = 1
    /\ flag = 0

\* number of frames of the session in which the face detected p-th was low
LowFramesOfFace(p) ==
    Cardinality({i \in 1..Len(frame_results) :
                    frame_results[i].faces >= p /\ ReadingOf(i, p) < thresh})

(* C7: faces are counted apart, so an event is appended only when some     *)
(* face has had at least frame_check low readings of its own.              *)
C7_PerFaceCounters ==
    Len(drowsy_events) > 0 =>
       \E p \in 1..MaxFaces : LowFramesOfFace(p) >= frame_check

(* C9: from a fresh log store, load_historical_logs after n saves returns  *)
(* the n summaries in the order they were appended, each as it was saved.  *)
C9_LoadReturnsAppended ==
    /\ last_op = "load" => loaded = appended
    /\ Len(HistoricalLogs(log_file)) = Len(appended)

C9_Witness ==
    /\ last_op = "load"
    /\ Len(loaded) = 2
    /\ loaded[1] # loaded[2]
    /\ loaded[2].total_frames > 0

(* C10: on a missing or unparseable log file, save_session_log succeeds    *)
(* and leaves the file holding exactly the new summary, and                *)
(* load_historical_logs returns the empty sequence and leaves the file as  *)
(* it was.                                                                 *)
C10_LossyRecovery ==
    [][(~log_file.exists \/ ~log_file.parses) =>
          /\ last_op' = "save" =>
                /\ save_outcome' = "ok"
                /\ log_file' = JsonDump(<<SessionData>>)
          /\ last_op' = "load" =>
                /\ loaded' = <<>>
                /\ log_file' = log_file]_vars

C10_Witness ==
    /\ last_op = "save"
    /\ found = "unparseable"
    /\ save_outcome = "ok"
    /\ log_file = JsonDump(<<SessionData>>)
    /\ total_frames > 0

(* C8: a start while the record shows active = true is refused: no run     *)
(* writes its Starting record over a record that shows active = true.      *)
C8_SecondStartRefused ==
    [][\A t \in Runs :
          (tpc[t] = "begin" /\ tpc'[t] = "launch") =>
             ~GetActive(CheckLiveSessionStatus(status_file))]_vars

\* the summaries the log file holds
StoredLogs == HistoricalLogs(log_file)

\* summary x is in the sequence logs
Holds(logs, x) == \E i \in 1..Len(logs) : logs[i] = x

(* C11: save_session_log is an unlocked read-modify-write: every save ends *)
(* ok, the file holds what the last writer loaded plus its own summary,    *)
(* and of two writers that loaded the same list at most one has its        *)
(* summary in the file, so an update is lost without any report.           *)
C11_LostUpdate ==
    /\ \A p \in Writers : wpc[p] = "done" => wout[p] = "ok"
    /\ appended # <<>> =>
          \E p \in Writers :
             /\ wpc[p] = "done"
             /\ log_file = JsonDump(Append(wlogs[p], WriterData(p)))
    /\ \A p, q \in Writers :
          (p # q /\ wpc[p] = "done" /\ wpc[q] = "done" /\ wlogs[p] = wlogs[q])
             => ~(Holds(StoredLogs, WriterData(p)) /\ Holds(StoredLogs, WriterData(q)))

C11_Witness ==
    /\ \A p \in Writers : wpc[p] = "done" /\ wout[p] = "ok"
    /\ Len(appended) = MaxWriters
    /\ Len(StoredLogs) < Len(appended)
    /\ \E p \in Writers : ~Holds(StoredLogs, WriterData(p))

\* the status is the Failed record: active = false, error set, not completed
IsFailed(status) ==
    /\ ~GetActive(status)
    /\ "error" \in DOMAIN status
    /\ "completed" \notin DOMAIN status

\* the status is the Completed record
IsCompleted(status) ==
    /\ ~GetActive(status)
    /\ "completed" \in DOMAIN status
    /\ status.completed
    /\ "end_time" \in DOMAIN status

(* C12: a run whose detector process fails, or whose launch raises, ends   *)
(* with the Failed record as the last record it writes.                    *)
C12_FailedRunWritesFailed ==
    \A t \in Runs :
       (tpc[t] = "done" /\ proc[t] \in {"failed", "none"})
          => IsFailed(writes[t][Len(writes[t])])

\* the run of main has ended after its session was opened
RunEnded == mpc \in {"done", "killed"}

(* C13: when a detection run ends after the detector was initialised and   *)
(* the video source opened, whatever ended it, exactly one summary of the  *)
(* current session has been appended to the log store.                     *)
C13_OneSummaryPerRun ==
    RunEnded =>
       /\ Len(appended) = 1
       /\ appended[1] = SessionData
       /\ StoredLogs = <<SessionData>>

\* the status is a Starting record
IsStarting(status) ==
    /\ GetActive(status)
    /\ {"start_time", "output_file", "session_id"} \subseteq DOMAIN status

(* C14: a run has written its Starting record, with active = true and      *)
(* start_time, output_file and session_id set, before its detection        *)
(* process is launched: no process of a run exists unless the first record *)
(* the run wrote is that one.                                              *)
C14_StartingBeforeLaunch ==
    \A t \in Runs :
       proc[t] # "none" => (writes[t] # <<>> /\ IsStarting(writes[t][1]))

\* the process of a run is running and the file holds the run's Starting record
C14_Witness ==
    \E t \in Runs :
       /\ proc[t] = "running"
       /\ writes[t] # <<>>
       /\ status_file = StatusDump(writes[t][1])

(* C15: when the detection process of a run has exited normally and the    *)
(* run has finished, the last record the run wrote is Completed: active =  *)
(* false, completed = true, end_time set, and start_time, output_file and  *)
(* session_id as in the run's Starting record.                             *)
C15_CompletedAfterNormalExit ==
    \A t \in Runs :
       (tpc[t] = "done" /\ proc[t] = "exited") =>
          /\ Len(writes[t]) = 2
          /\ IsStarting(writes[t][1])
          /\ IsCompleted(writes[t][2])
          /\ {"start_time", "output_file", "session_id"} \subseteq DOMAIN writes[t][2]
          /\ writes[t][2].start_time = writes[t][1].start_time
          /\ writes[t][2].output_file = writes[t][1].output_file
          /\ writes[t][2].session_id = writes[t][1].session_id

\* a run whose process exited normally has finished and the file holds its
\* Completed record
C15_Witness ==
    \E t \in Runs :
       /\ tpc[t] = "done"
       /\ proc[t] = "exited"
       /\ status_file = StatusDump(writes[t][2])

\* what status() reads now, and after the step
StatusNow == CheckLiveSessionStatus(status_file)
StatusNext == CheckLiveSessionStatus(status_file')

(* C16: when the Stop handler returns, every running detection process has *)
(* been signalled and the record reads active = false, whether or not a    *)
(* process has exited; from then on the record reads active = true again   *)
(* only by the Starting write of a run.                                    *)
C16_StopReadsInactive ==
    [][/\ \A c \in Controllers :
            (cpc[c] = "in_stop" /\ cpc'[c] = "idle") =>
               /\ ~GetActive(StatusNext)
               /\ \A t \in Runs : proc[t] = "running" => proc'[t] = "signalled"
       /\ (~GetActive(StatusNow) /\ GetActive(StatusNext)) =>
              \E t \in Runs : tpc[t] = "begin" /\ tpc'[t] = "launch"]_vars

\* the Stop handler has returned, the record reads active = false and the
\* process it signalled has not exited yet
C16_Witness ==
    /\ ~GetActive(StatusNow)
    /\ "start_time" \in DOMAIN StatusNow
    /\ "completed" \notin DOMAIN StatusNow
    /\ \E t \in Runs : proc[t] = "signalled"
    /\ \A c \in Controllers : cpc[c] # "in_stop"

\* what a read of the file must return
ExpectedRead(file) ==
    IF file.exists /\ file.parses THEN file.value ELSE [active |-> FALSE]

(* C17: a status() read never fails and leaves the file as it is: it       *)
(* returns active = false, with no error, for a missing file and for one   *)
(* that does not parse, and the stored record as it is otherwise.          *)
C17_StatusReadIsLossy ==
    [][polled' # polled =>
          /\ status_file' = status_file
          /\ polled' = ExpectedRead(status_file)
          /\ (~status_file.exists \/ ~status_file.parses) =>
                 (polled' = [active |-> FALSE] /\ "error" \notin DOMAIN polled')]_vars

\* a file that does not parse has been read as Idle
C17_Witness ==
    /\ status_file = GarbageStatus
    /\ polled = [active |-> FALSE]

(* C18: a detector with an invalid configuration is refused at            *)
(* construction, so no session processes a frame with frame_check <= 0.    *)
C18_NoSessionWithBadFrameCheck == total_frames > 0 => frame_check > 0

\* the session variables of the detector
SessionVars ==
    <<flag, total_frames, drowsy_frames, drowsy_events, ear_history, session_start>>

\* the ratio is the number 0, and its division is defined
IsZero(r) == r.num = 0 /\ r.den > 0

(* C19: get_session_stats leaves every session variable as it is, and on   *)
(* a session with no processed frame it returns drowsiness_percentage = 0, *)
(* avg_ear = 0 and current_ear = 0, with no division by zero.              *)
C19_StatsOfEmptySession ==
    [][last_op' = "stats" =>
          /\ SessionVars' = SessionVars
          /\ stats'.total_frames = total_frames
          /\ stats'.drowsiness_percentage.den > 0
          /\ total_frames = 0 =>
                 /\ IsZero(stats'.drowsiness_percentage)
                 /\ IsZero(stats'.avg_ear)
                 /\ stats'.current_ear = 0]_vars

\* the statistics of a session with no processed frame have been taken
C19_Witness ==
    /\ last_op = "stats"
    /\ total_frames = 0
    /\ stats # NoStats
    /\ IsZero(stats.drowsiness_percentage)

(* C20: save_session_log leaves the session in memory as it is and only    *)
(* reset_session starts a new session, so a second save with no reset in   *)
(* between appends a summary with the same session_id and counts as the    *)
(* first.                                                                  *)
C20_SaveKeepsSession ==
    [][/\ session_start' # session_start => last_op' = "reset"
       /\ last_op' = "save" =>
             /\ SessionVars' = SessionVars
             /\ (last_op = "save" /\ Len(appended') = Len(appended) + 1) =>
                    LET a == appended[Len(appended)]
                        b == appended'[Len(appended')]
                    IN  /\ b.session_id = a.session_id
                        /\ b.total_frames = a.total_frames
                        /\ b.drowsy_frames = a.drowsy_frames
                        /\ b.drowsy_events = a.drowsy_events
                        /\ b.events = a.events
                        /\ StoredLogs' = Append(StoredLogs, b)]_vars

\* a session with frames has been saved twice in a row
C20_Witness ==
    /\ last_op = "save"
    /\ Len(appended) = 2
    /\ Len(StoredLogs) = 2
    /\ total_frames > 0
    /\ appended[1].session_id = appended[2].session_id
    /\ appended[2].total_frames = total_frames

\* the step is a process_frame whose frame has no face
NoFaceFrameStep == total_frames' = total_frames + 1 /\ results'.faces_detected = 0

(* C21: a frame with no face adds one to total_frames and changes nothing  *)
(* else of the session: the consecutive-low counter, drowsy_frames,        *)
(* ear_history and the events stay, and the verdict has faces_detected =   *)
(* 0, ear = 0 and drowsy = false; a low run goes on across such frames.    *)
C21_NoFaceFrame ==
    [][NoFaceFrameStep =>
          /\ UNCHANGED <<flag, drowsy_frames, ear_history, drowsy_events, session_start>>
          /\ results'.ear = 0
          /\ ~results'.drowsy]_vars

\* a frame with no face has been processed in the middle of a low run
C21_Witness ==
    /\ last_op = "frame"
    /\ results.faces_detected = 0
    /\ flag > 0
    /\ total_frames > Len(ear_history)

(* C22: reset_session sets the consecutive-low counter to 0 and clears     *)
(* total_frames, drowsy_frames, the events and ear_history, so an alert or *)
(* an event comes only after at least frame_check frames processed since   *)
(* the reset.                                                              *)
C22_ResetForgetsRun ==
    [][/\ last_op' = "reset" =>
             /\ flag' = 0
             /\ total_frames' = 0
             /\ drowsy_frames' = 0
             /\ drowsy_events' = <<>>
             /\ ear_history' = <<>>
       /\ ((last_op' = "frame" /\ results'.alert_triggered) \/ drowsy_events' # <<>>) =>
             total_frames' >= frame_check]_vars

\* the processed frames of the session in which a face was detected
FramesWithFace == {i \in 1..Len(frame_results) : frame_results[i].faces >= 1}

(* C23: ear_history has one value for each processed frame in which a face *)
(* was detected and none for the others, so it is never longer than        *)
(* total_frames.                                                           *)
C23_OneReadingPerFaceFrame ==
    /\ Len(ear_history) = Cardinality(FramesWithFace)
    /\ Len(ear_history) <= total_frames

\* the positions of main inside the loop
InLoop == {"read", "process", "key"}

(* C24: the auto-stop limit is checked once in each loop iteration, right  *)
(* after the frame is read: a frame is processed only after a check that   *)
(* found the limit not exceeded, the frame on which it is found exceeded   *)
(* is counted but not processed, the loop is left for the limit only at    *)
(* that check, never in the middle of a frame, and with a limit set, time  *)
(* passing and frames arriving the loop is eventually left.                *)
C24_AutoStopPerFrame ==
    /\ [][/\ total_frames' = total_frames + 1 => (mpc = "process" /\ mpc' = "key")
          /\ (mpc # "process" /\ mpc' = "process") =>
                 /\ mpc = "read"
                 /\ ~AutoStopDue(auto_stop_time, wall)
                 /\ frame_count' = frame_count + 1
          /\ (mend # "auto_stop" /\ mend' = "auto_stop") =>
                 /\ mpc = "read"
                 /\ mpc' = "finally"
                 /\ AutoStopDue(auto_stop_time, wall)
                 /\ frame_count' = frame_count + 1
                 /\ UNCHANGED <<total_frames, ear_history, flag>>]_vars
    /\ (mpc \in InLoop /\ auto_stop_time # None) ~> (mpc \notin InLoop)

\* the loop was left for the limit, after a frame had been processed
C24_Witness ==
    /\ mend = "auto_stop"
    /\ mpc = "done"
    /\ frame_count > 1
    /\ total_frames > 0

\* the record is one a Stop handler wrote: a Starting record made inactive
StoppedRecord(status) ==
    /\ ~GetActive(status)
    /\ "start_time" \in DOMAIN status
    /\ "completed" \notin DOMAIN status

\* the process of run t is running and has not been signalled, no Stop
\* handler is at work and none was the last to write the record
RunsUndisturbed(t) ==
    /\ proc[t] = "running"
    /\ \A c \in Controllers : cpc[c] # "in_stop"
    /\ ~StoppedRecord(StatusNow)

(* C25: while the process of a run is running and no stop has been         *)
(* requested, the record reads active = true with the session_id of that   *)
(* run, and is not the record of the end of another run.                   *)
C25_RunningRecordStable ==
    \A t \in Runs :
       RunsUndisturbed(t) =>
          /\ GetActive(StatusNow)
          /\ "completed" \notin DOMAIN StatusNow
          /\ "session_id" \in DOMAIN StatusNow
          /\ StatusNow.session_id = writes[t][1].session_id

\* the runs whose detection process is there: launched and not ended
LiveProcesses == {t \in Runs : proc[t] \in {"running", "signalled"}}

(* C26: at most one detection process launched by the coordinator is       *)
(* running at any time.                                                    *)
C26_OneProcessAtATime == Cardinality(LiveProcesses) <= 1

\* the records the runs have written so far
WrittenRecords == UNION {{writes[t][i] : i \in 1..Len(writes[t])} : t \in Runs}

(* C27: a read of the status file that runs while the file is overwritten  *)
(* returns the whole previous record or the whole new one: once a record   *)
(* has been written, every read returns a record that a run wrote.         *)
C27_ReadsWholeRecords ==
    [][(polled' # polled /\ WrittenRecords # {}) => polled' \in WrittenRecords]_vars

(* C28: terminal outcomes are kept apart: a run whose process was ended by *)
(* a stop request is never recorded as Completed (completed = true).       *)
C28_StoppedNeverCompleted ==
    \A t \in Runs :
        proc[t] = "killed" =>
            \A i \in 1..Len(writes[t]) : ~IsCompleted(writes[t][i])

\* run t has written its Starting record
StartingWritten(t) == tpc[t] \in {"launch", "wait"}

\* the step is the Starting write of a run
IsStartingWrite == \E t \in Runs : tpc[t] = "begin" /\ tpc'[t] = "launch"

(* C29: every start eventually leads to a record with active = false: once *)
(* a run has written Starting, the record eventually reads inactive (by    *)
(* the completion write, the error write or a stop request), and the only  *)
(* write that makes the record active is the Starting write of a start.    *)
C29_StartLeadsToInactive ==
    /\ \A t \in Runs : StartingWritten(t) ~> ~GetActive(StatusNow)
    /\ [][(status_file' # status_file /\ GetActive(StatusNext)) => IsStartingWrite]_vars

\* a run has written Starting, its process has exited and its thread has
\* written the record that reads inactive
C29_Witness ==
    \E t \in Runs :
        /\ tpc[t] = "done"
        /\ proc[t] = "exited"
        /\ Len(writes[t]) = 2
        /\ IsStarting(writes[t][1])
        /\ StatusNow = writes[t][2]
        /\ ~GetActive(StatusNow)

\* the readings of h that count as drowsy
LowReadings(h) == Cardinality({i \in 1..Len(h) : IsLow(h[i], thresh)})

\* the step is a reset_session
IsResetStep == session_start' # session_start

\* the summary s covers what the detector has processed since the instant
\* from, which are the frames of frame_results and the readings of ear_history
CoversSince(s, from) ==
    /\ s.session_id = from
    /\ s.total_frames = Len(frame_results)
    /\ s.drowsy_frames = LowReadings(ear_history)
    /\ s.drowsy_events = Len(s.events)
    /\ \A i \in 1..Len(s.events) : s.events[i].timestamp > from

(* C30: reset_session leaves the log store unchanged, and the summary that *)
(* the end of a run appends covers only what was processed since the most  *)
(* recent reset_session (or construction): its total_frames, drowsy_frames *)
(* and events are those accumulated after that instant, and it is the only *)
(* summary stored, so that a session discarded by the reset key is in none. *)
C30_SummarySinceReset ==
    /\ [](mpc = "done" =>
            /\ Len(appended) = 1
            /\ CoversSince(appended[1], session_start)
            /\ StoredLogs = appended)
    /\ [][IsResetStep => (log_file' = log_file /\ appended' = appended)]_vars

\* a run in which a frame was processed, the reset key discarded it, two
\* frames were processed with an event, and the summary was appended
C30_Witness ==
    /\ mpc = "done"
    /\ session_start > 0
    /\ frame_count > Len(frame_results)
    /\ Len(appended) = 1
    /\ appended[1].total_frames = 2
    /\ appended[1].drowsy_events = 1
    /\ StoredLogs = appended

====
